---- MODULE Spec2Model ----
(***************************************************************************)
(* Model of src/src/matching/index-search-bib.py: the distance budget      *)
(* (get_max_dist), the reverse verifier (match_candidate) with the fuzzy   *)
(* matcher and the overlap resolver it calls, and the card loop of main.   *)
(*                                                                         *)
(* Four specifications share the variables:                                *)
(*   SpecBudget  get_max_dist applied to texts of every bounded length     *)
(*   SpecVerify  match_candidate, one step per field, then resolution      *)
(*   SpecQuery   search_phrase building the query of one card              *)
(*   Spec        main: the card loop, the outputs and save_results         *)
(***************************************************************************)
EXTENDS Integers, Sequences, FiniteSets, TLC

\* ------------------------------------------------------------------ bounds

\* longest text handed to get_max_dist in SpecBudget
MaxTextLen == 30
\* longest OCR text in SpecVerify
MaxOcrLen == 3
\* longest field text (drawn exhaustively) in SpecVerify
MaxPatLen == 2
\* most raw fields of a database record in SpecVerify
MaxFields == 2
\* most lines of the inference file in Spec
MaxLines == 2
\* largest start index random.randint draws in Spec (2e6 in the program)
MaxIdx == 1
\* most hits a search returns in Spec
MaxCands == 2
\* most external interrupts delivered to a run in Spec
MaxInterrupts == 1

\* ------------------------------------------------------------- text helpers

Alphabet == {"a", "b"}

Min2(a, b) == IF a <= b THEN a ELSE b

Max2(a, b) == IF a >= b THEN a ELSE b

\* all texts over the alphabet of length at most n
AllStrings(n) == UNION {[1..k -> Alphabet] : k \in 0..n}

\* Python slice s[from:to] with 0 <= from <= to <= len(s)
Slice(s, from, to) == [i \in 1..(to - from) |-> s[from + i]]

\* a text of n code points
Pad(n) == [i \in 1..n |-> "a"]

\* Levenshtein distance (insertions, deletions, substitutions)
RECURSIVE Lev(_, _)
Lev(s, t) ==
    IF s = <<>> THEN Len(t)
    ELSE IF t = <<>> THEN Len(s)
    ELSE Min2(Min2(Lev(Tail(s), t) + 1, Lev(s, Tail(t)) + 1),
              Lev(Tail(s), Tail(t)) + (IF Head(s) = Head(t) THEN 0 ELSE 1))

\* ------------------------------------------------------------ get_max_dist

\* get_max_dist with the first threshold off by one (len(text) <= 6)
get_max_dist_le6(text) ==
    IF Len(text) <= 6 THEN 1
    ELSE IF Len(text) < 11 THEN 2
    ELSE Min2((Len(text) * 25) \div 100, 6)

\* get_max_dist without the cap of limit
get_max_dist_nolimit(text) ==
    IF Len(text) < 6 THEN 1
    ELSE IF Len(text) < 11 THEN 2
    ELSE (Len(text) * 25) \div 100

\* get_max_dist(text, threshold=0.25, limit=6); int() of a non-negative
\* float is its floor
get_max_dist(text) ==
    IF Len(text) < 6 THEN 1
    ELSE IF Len(text) < 11 THEN 2
    ELSE Min2((Len(text) * 25) \div 100, 6)

\* ------------------------------------------------------- find_near_matches

\* fuzzysearch's Match(start, end, dist, matched) over the haystack h
Match(h, s, e, d) ==
    [start |-> s, end |-> e, dist |-> d, matched |-> Slice(h, s, e)]

\* The matches the Levenshtein search yields before consolidation: every
\* window of h within d edits of p.  When d >= len(p) the search yields only
\* the empty window at every offset, at distance len(p).
RawMatches(p, h, d) ==
    IF d >= Len(p)
    THEN {Match(h, i, i, Len(p)) : i \in 0..Len(h)}
    ELSE {Match(h, w[1], w[2], Lev(p, Slice(h, w[1], w[2]))) :
            w \in {x \in (0..Len(h)) \X (0..Len(h)) :
                     /\ x[1] <= x[2]
                     /\ x[2] - x[1] >= Len(p) - d
                     /\ x[2] - x[1] <= Len(p) + d
                     /\ Lev(p, Slice(h, x[1], x[2])) <= d}}

\* the order in which the search yields its matches: by end, then start
YieldedBefore(m1, m2) ==
    \/ m1.end < m2.end
    \/ m1.end = m2.end /\ m1.start <= m2.start

RECURSIVE YieldOrder(_)
YieldOrder(S) ==
    IF S = {} THEN <<>>
    ELSE LET m == CHOOSE x \in S : \A y \in S : YieldedBefore(x, y)
         IN  <<m>> \o YieldOrder(S \ {m})

SetMin(S) == CHOOSE x \in S : \A y \in S : x <= y

SetMax(S) == CHOOSE x \in S : \A y \in S : x >= y

\* GroupOfMatches.is_match_in_group, the group's range being the hull of
\* its matches
is_match_in_group(g, m) ==
    ~ (\/ m.end <= SetMin({x.start : x \in g})
       \/ m.start >= SetMax({x.end : x \in g}))

\* group_matches: a match joins (and merges) every group it overlaps
RECURSIVE group_matches(_, _)
group_matches(ms, groups) ==
    IF ms = <<>> THEN groups
    ELSE LET m  == Head(ms)
             ov == {g \in groups : is_match_in_group(g, m)}
         IN  group_matches(Tail(ms), (groups \ ov) \cup {(UNION ov) \cup {m}})

\* get_best_match_in_group: lowest distance, then longest; the group is a
\* set, so which of several equally good matches min() meets first is left
\* open
BestMatchesInGroup(g) ==
    {m \in g : \A n \in g :
        \/ m.dist < n.dist
        \/ m.dist = n.dist /\ (m.end - m.start) >= (n.end - n.start)}

\* one best match out of every group, in every possible way
RECURSIVE Picks(_)
Picks(G) ==
    IF G = {} THEN {{}}
    ELSE LET g == CHOOSE x \in G : TRUE
         IN  {rest \cup {b} : rest \in Picks(G \ {g}), b \in BestMatchesInGroup(g)}

StartsBefore(m1, m2) ==
    \/ m1.start < m2.start
    \/ m1.start = m2.start /\ m1.end <= m2.end

\* sorted(best_matches, key=start)
RECURSIVE SortedByStart(_)
SortedByStart(S) ==
    IF S = {} THEN <<>>
    ELSE LET m == CHOOSE x \in S : \A y \in S : StartsBefore(x, y)
         IN  <<m>> \o SortedByStart(S \ {m})

\* a matcher that takes the empty subsequence like any other
find_near_matches_never_raises(p) == FALSE

\* find_near_matches raises ValueError on an empty subsequence
find_near_matches_raises(p) == p = <<>>

\* find_near_matches(p, h, max_l_dist=d): the lists it may return
find_near_matches(p, h, d) ==
    {SortedByStart(P) : P \in Picks(group_matches(YieldOrder(RawMatches(p, h, d)), {}))}

\* --------------------------------------------------------- match_candidate

\* helper.generate_db_records(raw_label, raw_text): the atomic label/text
\* pairs of one raw field.  The index keeps the authors of a record in the
\* fields author1 and author2 (search_phrase) and every other label in the
\* field of its lowercase name, so both author fields carry the label Author.
RawLabels == {"author1", "author2", "title"}

LabelOf(raw_label) ==
    IF raw_label \in {"author1", "author2"} THEN "Author" ELSE "Title"

\* the mark between the sub-values of a raw field holding several
SubValueSep == ";"

\* the sub-values of a raw text, in order
RECURSIVE SubValues(_, _)
SubValues(raw_text, value) ==
    IF raw_text = <<>> THEN <<value>>
    ELSE IF Head(raw_text) = SubValueSep
         THEN <<value>> \o SubValues(Tail(raw_text), <<>>)
         ELSE SubValues(Tail(raw_text), Append(value, Head(raw_text)))

\* a raw field holding several sub-values expands into one pair for each
generate_db_records(raw_label, raw_text) ==
    LET values == SubValues(raw_text, <<>>)
    IN  [i \in 1..Len(values) |-> [label |-> LabelOf(raw_label), text |-> values[i]]]

\* the pairs of a whole record, in the order match_candidate visits them
RECURSIVE AtomicPairs(_)
AtomicPairs(db_entries) ==
    IF db_entries = <<>> THEN <<>>
    ELSE generate_db_records(Head(db_entries).raw_label, Head(db_entries).raw_text)
            \o AtomicPairs(Tail(db_entries))

\* the matcher call of line 106 with a budget one too wide
matcher_call_wide(text, ocr) ==
    find_near_matches(text, ocr, get_max_dist(text) + 1)

\* lines 103-106: the budget of the field and the matcher call
matcher_call(text, ocr) ==
    find_near_matches(text, ocr, get_max_dist(text))

\* min(matches, key=dist, default=None) returning the last match of lowest
\* distance
lowest_of_last(matches) ==
    IF matches = <<>> THEN <<>>
    ELSE LET i == CHOOSE k \in 1..Len(matches) : \A j \in 1..Len(matches) :
                     \/ matches[k].dist < matches[j].dist
                     \/ matches[k].dist = matches[j].dist /\ k >= j
         IN  <<matches[i]>>

\* min(matches, key=dist, default=None): the first match of lowest distance,
\* as a list of at most one element
lowest_of(matches) ==
    IF matches = <<>> THEN <<>>
    ELSE LET i == CHOOSE k \in 1..Len(matches) : \A j \in 1..Len(matches) :
                     \/ matches[k].dist < matches[j].dist
                     \/ matches[k].dist = matches[j].dist /\ k <= j
         IN  <<matches[i]>>

\* lines 105-110 for one field: the values lowest may take; a ValueError of
\* the matcher skips the field (continue)
LowestChoices(text, ocr) ==
    IF find_near_matches_raises(text) THEN {<<>>}
    ELSE {lowest_of(ms) : ms \in matcher_call(text, ocr)}

\* lines 112-113: a Match object is always true, so only None is skipped
FieldOf(label, lowest) ==
    IF lowest = <<>> THEN <<>>
    ELSE <<[label |-> label, text |-> lowest[1].matched,
            from |-> lowest[1].start, to |-> lowest[1].end]>>

\* lines 99-113: every list of fields the loop over the record may build
RECURSIVE FieldLists(_, _)
FieldLists(ocr, pairs) ==
    IF pairs = <<>> THEN {<<>>}
    ELSE LET n    == Len(pairs)
             last == pairs[n]
         IN  {front \o FieldOf(last.label, lw) :
                front \in FieldLists(ocr, SubSeq(pairs, 1, n - 1)),
                lw \in LowestChoices(last.text, ocr)}

\* ------------------------------------------------------- correct_overlaps
\* src/alignment/align_fuzzysearch.py is not part of the sources at hand; the
\* resolver follows its written contract: overlapping spans are settled in
\* favour of the lower distance, then the larger range, then the earlier
\* start; the loser is truncated to what remains of it (the longest
\* remaining piece, the earliest of several) or dropped when nothing
\* remains; the result is sorted by start.

\* two half-open ranges share a position
Overlap(a, b) == Max2(a.from, b.from) < Min2(a.to, b.to)

\* the distance a span carries, 0 when it carries none
SpanDist(f) == IF "dist" \in DOMAIN f THEN f.dist ELSE 0

\* fully identical spans collapse to the first of them
RECURSIVE Dedup(_)
Dedup(fs) ==
    IF fs = <<>> THEN <<>>
    ELSE LET n     == Len(fs)
             front == Dedup(SubSeq(fs, 1, n - 1))
         IN  IF \E i \in 1..Len(front) : front[i] = fs[n]
             THEN front ELSE Append(front, fs[n])

\* span i of fs wins over span j
Preferred(fs, i, j) ==
    LET a == fs[i]
        b == fs[j]
    IN  \/ SpanDist(a) < SpanDist(b)
        \/ /\ SpanDist(a) = SpanDist(b)
           /\ \/ (a.to - a.from) > (b.to - b.from)
              \/ /\ (a.to - a.from) = (b.to - b.from)
                 /\ \/ a.from < b.from
                    \/ a.from = b.from /\ i <= j

\* the positions of fs, winners first
RECURSIVE PriorityOrder(_, _)
PriorityOrder(fs, left) ==
    IF left = {} THEN <<>>
    ELSE LET i == CHOOSE k \in left : \A j \in left : Preferred(fs, k, j)
         IN  <<i>> \o PriorityOrder(fs, left \ {i})

\* what remains of span s beside the accepted spans
Truncated(s, accepted) ==
    IF s.from = s.to THEN <<s>>
    ELSE LET free   == {i \in s.from..(s.to - 1) :
                          \A k \in 1..Len(accepted) :
                              ~ (accepted[k].from <= i /\ i < accepted[k].to)}
             pieces == {w \in (s.from..s.to) \X (s.from..s.to) :
                          /\ w[1] < w[2]
                          /\ \A i \in w[1]..(w[2] - 1) : i \in free
                          /\ (w[1] - 1) \notin free
                          /\ w[2] \notin free}
         IN  IF pieces = {} THEN <<>>
             ELSE LET w == CHOOSE x \in pieces : \A y \in pieces :
                               \/ (x[2] - x[1]) > (y[2] - y[1])
                               \/ (x[2] - x[1]) = (y[2] - y[1]) /\ x[1] <= y[1]
                  IN  <<[s EXCEPT !.from = w[1], !.to = w[2]]>>

RECURSIVE Settle(_, _, _)
Settle(fs, order, accepted) ==
    IF order = <<>> THEN accepted
    ELSE Settle(fs, Tail(order), accepted \o Truncated(fs[Head(order)], accepted))

\* stable insertion of span x into a list sorted by start
RECURSIVE InsertByStart(_, _)
InsertByStart(x, sorted) ==
    IF sorted = <<>> THEN <<x>>
    ELSE LET h == Head(sorted)
         IN  IF x.from < h.from \/ (x.from = h.from /\ x.to < h.to)
             THEN <<x>> \o sorted
             ELSE <<h>> \o InsertByStart(x, Tail(sorted))

RECURSIVE SortSpans(_)
SortSpans(fs) ==
    IF fs = <<>> THEN <<>>
    ELSE InsertByStart(fs[Len(fs)], SortSpans(SubSeq(fs, 1, Len(fs) - 1)))

correct_overlaps(fields) ==
    LET fs == Dedup(fields)
    IN  SortSpans(Settle(fs, PriorityOrder(fs, 1..Len(fs)), <<>>))

\* lines 121-122 left out: every span keeps the text the matcher gave it
Reslice_keeps_matched(ocr, fields) == fields

\* lines 121-122: every span's text is read again from the OCR text
Reslice(ocr, fields) ==
    [i \in 1..Len(fields) |->
        [fields[i] EXCEPT !.text = Slice(ocr, fields[i].from, fields[i].to)]]

\* match_candidate returning the collected fields without resolving them
match_candidate_unresolved(ocr, fields, raised) ==
    Reslice(ocr, fields)

\* match_candidate returning the collected fields when correct_overlaps
\* raised
match_candidate_tail_keeps_fields(ocr, fields, raised) ==
    IF raised THEN Reslice(ocr, fields) ELSE Reslice(ocr, correct_overlaps(fields))

\* match_candidate adding the resolved spans to the collected ones
\* (fields += correct_overlaps(fields))
match_candidate_tail_appends(ocr, fields, raised) ==
    IF raised THEN <<>> ELSE Reslice(ocr, fields \o correct_overlaps(fields))

\* lines 115-124 of match_candidate on the collected fields; raised: the
\* call of correct_overlaps ended in an exception (the bare except)
match_candidate_tail(ocr, fields, raised) ==
    IF raised THEN <<>> ELSE Reslice(ocr, correct_overlaps(fields))

\* match_candidate(ocr, db_entries): every alignment it may return when the
\* resolver raises (TRUE) or returns (FALSE)
match_candidate(ocr, db_entries, raised) ==
    {match_candidate_tail(ocr, fields, raised) :
        fields \in FieldLists(ocr, AtomicPairs(db_entries))}

\* ------------------------------------------------------------------- state

VARIABLES
    \* SpecBudget: two texts and the budgets get_max_dist gave them
    textA, textB, distA, distB, bpc,
    \* SpecVerify: the arguments and locals of match_candidate
    \* (outcomes: what became of every field visited; raw_fields: the list
    \* handed to correct_overlaps; raised: correct_overlaps ended in an
    \* exception)
    ocr, db_entries, vi, fields, max_dist, lowest, outcomes, raw_fields,
    raised, alignment, vpc,
    \* Spec: the inputs of main ...
    all_lines, idx, min_matched_lines,
    \* ... what match_candidate returns for the stored texts and documents
    candidate_alignments,
    \* ... its position, the number of window lines taken, and its locals
    pc, cursor, file_path, m_ocr, parsed_alignments, results, records, matches,
    nb_cards_searched, matching_output, alignment_output,
    \* ... the two files save_results writes
    file_alignment, file_matching,
    \* ... and bookkeeping: interrupts delivered, search_phrase calls for the
    \* card at hand, why the card at hand was skipped, the exception that
    \* ended the run, and how correct_overlaps ended for every candidate of
    \* the card at hand
    intr_count, searched, skipped, crash_cause, endings,
    \* SpecQuery: the alignments search_phrase is called with, the query it
    \* builds, and its position
    sp_alignments, query, qpc

bvars == <<textA, textB, distA, distB, bpc>>

vvars == <<ocr, db_entries, vi, fields, max_dist, lowest, outcomes, raw_fields,
           raised, alignment, vpc>>

mvars == <<all_lines, idx, min_matched_lines, candidate_alignments, pc, cursor, file_path, m_ocr,
           parsed_alignments, results, records, matches, nb_cards_searched,
           matching_output, alignment_output, file_alignment, file_matching,
           intr_count, searched, skipped, crash_cause, endings>>

qvars == <<sp_alignments, query, qpc>>

vars == <<bvars, vvars, mvars, qvars>>

BudgetIdle ==
    /\ textA = <<>> /\ textB = <<>> /\ distA = 0 /\ distB = 0 /\ bpc = "idle"

VerifyIdle ==
    /\ ocr = <<>> /\ db_entries = <<>> /\ vi = 0 /\ fields = <<>>
    /\ max_dist = 0 /\ lowest = <<>> /\ outcomes = <<>> /\ raw_fields = <<>>
    /\ raised = FALSE /\ alignment = <<>> /\ vpc = "idle"

MainIdle ==
    /\ all_lines = <<>> /\ idx = 0 /\ min_matched_lines = 0
    /\ candidate_alignments = <<>>
    /\ pc = "idle" /\ cursor = 0 /\ file_path = "" /\ m_ocr = <<>>
    /\ parsed_alignments = <<>> /\ results = <<>> /\ records = <<>>
    /\ matches = <<>> /\ nb_cards_searched = 0
    /\ matching_output = <<>> /\ alignment_output = <<>>
    /\ file_alignment = <<>> /\ file_matching = <<>>
    /\ intr_count = 0 /\ searched = 0 /\ skipped = "" /\ crash_cause = ""
    /\ endings = <<>>

QueryIdle ==
    /\ sp_alignments = <<>> /\ query = <<>> /\ qpc = "idle"

\* -------------------------------------------------------------- SpecBudget

BudgetInit ==
    /\ textA \in {Pad(n) : n \in 0..MaxTextLen}
    /\ textB \in {Pad(n) : n \in 0..MaxTextLen}
    /\ distA = 0 /\ distB = 0 /\ bpc = "call"
    /\ VerifyIdle
    /\ MainIdle
    /\ QueryIdle

\* get_max_dist called on both texts
ComputeBudget ==
    /\ bpc = "call"
    /\ distA' = get_max_dist(textA)
    /\ distB' = get_max_dist(textB)
    /\ bpc' = "done"
    /\ UNCHANGED <<textA, textB, vvars, mvars, qvars>>

BudgetNext == ComputeBudget

SpecBudget == BudgetInit /\ [][BudgetNext]_vars

\* -------------------------------------------------------------- SpecVerify

\* a field text of 6 code points, whose budget is 2
LongPatterns == {Pad(6)}

Patterns == AllStrings(MaxPatLen) \cup LongPatterns

RawEntries == [raw_label : RawLabels, raw_text : Patterns]

\* the order of the raw fields in a stored document
LabelRank(raw_label) ==
    IF raw_label = "author1" THEN 1 ELSE IF raw_label = "author2" THEN 2 ELSE 3

\* a record is a JSON object: its raw labels are distinct, and its fields
\* come in the order of the stored document
PlainRecords ==
    {r \in UNION {[1..k -> RawEntries] : k \in 0..MaxFields} :
        \A i, j \in 1..Len(r) :
            i < j => LabelRank(r[i].raw_label) < LabelRank(r[j].raw_label)}

\* an author field holding two names
TwoAuthors == <<"a", "a", ";", "b", "b">>

\* records whose first field holds two names, alone or before a title
TwoAuthorRecords ==
    {<<[raw_label |-> "author1", raw_text |-> TwoAuthors]>>}
      \cup {<<[raw_label |-> "author1", raw_text |-> TwoAuthors],
              [raw_label |-> "title", raw_text |-> t]>> : t \in Patterns}

DbRecords == PlainRecords \cup TwoAuthorRecords

\* an OCR text on which a field text of budget 2 is found at distance 2, and
\* one on which the occurrences of "aa" at distance 1 all overlap
LongOcrs == {Pad(4), <<"b", "a", "b", "a">>}

OcrTexts == AllStrings(MaxOcrLen) \cup LongOcrs

VerifyInit ==
    /\ BudgetIdle
    /\ MainIdle
    /\ QueryIdle
    /\ ocr \in OcrTexts
    /\ db_entries \in DbRecords
    /\ vi = 0 /\ fields = <<>> /\ max_dist = 0 /\ lowest = <<>>
    /\ outcomes = <<>> /\ raw_fields = <<>> /\ raised = FALSE
    /\ alignment = <<>> /\ vpc = "fields"

\* the pair the loop of lines 99-113 is at
CurrentPair == AtomicPairs(db_entries)[vi]

\* lines 102-113 for the next pair of the record
MatchField ==
    /\ vpc = "fields"
    /\ vi < Len(AtomicPairs(db_entries))
    /\ LET pr == AtomicPairs(db_entries)[vi + 1]
       IN  /\ max_dist' = get_max_dist(pr.text)
           /\ \E lw \in LowestChoices(pr.text, ocr) :
                /\ lowest' = (IF find_near_matches_raises(pr.text) THEN lowest ELSE lw)
                /\ fields' = fields \o FieldOf(pr.label, lw)
                /\ outcomes' = Append(outcomes,
                                  IF find_near_matches_raises(pr.text) THEN "ValueError"
                                  ELSE IF lw = <<>> THEN "None" ELSE "kept")
    /\ vi' = vi + 1
    /\ UNCHANGED <<ocr, db_entries, raw_fields, raised, alignment, vpc, bvars, mvars,
                   qvars>>

\* lines 115-124 once every pair was visited
ResolveAndReturn ==
    /\ vpc = "fields"
    /\ vi = Len(AtomicPairs(db_entries))
    /\ \E exc \in BOOLEAN :
         /\ alignment' = match_candidate_tail(ocr, fields, exc)
         /\ raised' = exc
    /\ raw_fields' = fields
    /\ vpc' = "returned"
    /\ UNCHANGED <<ocr, db_entries, vi, fields, max_dist, lowest, outcomes, bvars,
                   mvars, qvars>>

VerifyNext == MatchField \/ ResolveAndReturn

SpecVerify == VerifyInit /\ [][VerifyNext]_vars

\* -------------------------------------------------------------------- main

\* helper.load_ocr (src/NER/helper.py): JOKER, and the parts of
\* UNKNOWN_CHARS and TRUNCATED_CHARS the stored texts meet; "~" stands for a
\* combining mark of TRUNCATED_CHARS, "lsquo" and "emdash" for the left single
\* quotation mark and the em dash of UNKNOWN_CHARS
JOKER == "JOKER"

UNKNOWN_CHARS == [c \in {"lsquo", "emdash"} |-> IF c = "lsquo" THEN JOKER ELSE "-"]

TRUNCATED_CHARS == {"~"}

\* text.replace(to_remove, "") for every truncated character
RECURSIVE RemoveTruncated(_)
RemoveTruncated(text) ==
    IF text = <<>> THEN <<>>
    ELSE (IF Head(text) \in TRUNCATED_CHARS THEN <<>> ELSE <<Head(text)>>)
            \o RemoveTruncated(Tail(text))

\* the OCR LMDB: card path -> stored text
OcrStore ==
    [p \in {"c1", "c2"} |->
        IF p = "c1" THEN <<"a", "b", "c", "d", "lsquo">>
        ELSE <<"a", "a", "~", "a", "b">>]

\* txn.get(path) returns None for a missing key and None.decode() raises
load_ocr_raises(path) == path \notin DOMAIN OcrStore

load_ocr(path) ==
    LET text     == OcrStore[path]
        replaced == [i \in 1..Len(text) |->
                        IF text[i] \in DOMAIN UNKNOWN_CHARS
                        THEN UNKNOWN_CHARS[text[i]] ELSE text[i]]
    IN  RemoveTruncated(replaced)

\* the bib LMDB: record id -> document, its raw fields in stored order
BibStore ==
    [r \in {"r1", "r2", "r3"} |->
        IF r = "r1" THEN <<[raw_label |-> "author1", raw_text |-> <<"a", "b">>],
                           [raw_label |-> "title", raw_text |-> <<"c", "d">>]>>
        ELSE IF r = "r2"
        THEN <<[raw_label |-> "author1", raw_text |-> <<"a", "b">>],
               [raw_label |-> "author2", raw_text |-> <<"b", "c">>],
               [raw_label |-> "title", raw_text |-> <<"c", "d">>]>>
        ELSE <<[raw_label |-> "title", raw_text |-> <<"x", "y">>]>>]

\* the record ids the index holds; r4 has no document in the bib LMDB
IndexIds == {"r1", "r2", "r3", "r4"}

\* decimal tokens and int() of them
NumTokens == {"0", "1", "2", "3", "4"}

IntOf(tok) ==
    IF tok = "0" THEN 0 ELSE IF tok = "1" THEN 1 ELSE IF tok = "2" THEN 2
    ELSE IF tok = "3" THEN 3 ELSE 4

\* the lines of the inference file: the card path and the alignments that
\* follow it, each alignment given by its whitespace-separated tokens
InputLines ==
    { [file_path |-> "c1", alignments |-> << <<"Author", "0", "4">> >>],
      [file_path |-> "c2", alignments |-> << <<"Title", "0", "4">> >>],
      [file_path |-> "cx", alignments |-> << <<"Title", "0", "4">> >>],
      [file_path |-> "c1", alignments |-> << <<"Author", "0">> >>] }

\* Python's s[a:b] for a, b >= 0
PySlice(s, a, b) ==
    LET lo == Min2(a, Len(s))
        hi == Min2(b, Len(s))
    IN  IF lo >= hi THEN <<>> ELSE SubSeq(s, lo + 1, hi)

\* label, start, end = alignment.split() and int(start), int(end) raise
\* ValueError
parse_alignments_raises(alignments) ==
    \E i \in 1..Len(alignments) :
        \/ Len(alignments[i]) # 3
        \/ alignments[i][2] \notin NumTokens
        \/ alignments[i][3] \notin NumTokens

\* parse_alignments: a dict label -> texts, kept in insertion order
RECURSIVE parse_alignments(_, _)
parse_alignments(alignments, text) ==
    IF alignments = <<>> THEN <<>>
    ELSE LET n     == Len(alignments)
             front == parse_alignments(SubSeq(alignments, 1, n - 1), text)
             al    == alignments[n]
             piece == PySlice(text, IntOf(al[2]), IntOf(al[3]))
         IN  IF \E k \in 1..Len(front) : front[k].label = al[1]
             THEN [k \in 1..Len(front) |->
                     IF front[k].label = al[1]
                     THEN [front[k] EXCEPT !.texts = Append(@, piece)]
                     ELSE front[k]]
             ELSE Append(front, [label |-> al[1], texts |-> <<piece>>])

Whitespace == {" ", "\n", "\t"}

\* text.split(): the maximal runs of non-whitespace
RECURSIVE Split(_, _)
Split(text, word) ==
    IF text = <<>> THEN (IF word = <<>> THEN <<>> ELSE <<word>>)
    ELSE IF Head(text) \in Whitespace
         THEN (IF word = <<>> THEN <<>> ELSE <<word>>) \o Split(Tail(text), <<>>)
         ELSE Split(Tail(text), Append(word, Head(text)))

\* label.lower()
Lower(label) == IF label = "Title" THEN "title" ELSE "author"

FuzzyTerm(fieldname, word) ==
    [fieldname |-> fieldname, text |-> word, maxdist |-> 2, prefixlength |-> 0]

\* lines 56-63 with the second Author term left out
RECURSIVE TermsOfWords_author1_only(_, _)
TermsOfWords_author1_only(label, words) ==
    IF words = <<>> THEN <<>>
    ELSE (IF Len(Head(words)) > 3
          THEN (IF label = "Author"
                THEN <<FuzzyTerm("author1", Head(words))>>
                ELSE <<FuzzyTerm(Lower(label), Head(words))>>)
          ELSE <<>>)
            \o TermsOfWords_author1_only(label, Tail(words))

\* lines 56-63 for the words of one text
RECURSIVE TermsOfWords(_, _)
TermsOfWords(label, words) ==
    IF words = <<>> THEN <<>>
    ELSE (IF Len(Head(words)) > 3
          THEN (IF label = "Author"
                THEN <<FuzzyTerm("author1", Head(words)), FuzzyTerm("author2", Head(words))>>
                ELSE <<FuzzyTerm(Lower(label), Head(words))>>)
          ELSE <<>>)
            \o TermsOfWords(label, Tail(words))

RECURSIVE TermsOfTexts(_, _)
TermsOfTexts(label, texts) ==
    IF texts = <<>> THEN <<>>
    ELSE TermsOfWords(label, Split(Head(texts), <<>>)) \o TermsOfTexts(label, Tail(texts))

\* lines 50-63 of search_phrase: the fuzzy terms of the query
RECURSIVE fuzzy_terms(_)
fuzzy_terms(alignments) ==
    IF alignments = <<>> THEN <<>>
    ELSE TermsOfTexts(Head(alignments).label, Head(alignments).texts)
            \o fuzzy_terms(Tail(alignments))

\* searcher.search(Or(fuzzy_terms), limit=None): some ranking of documents
\* of the index; an Or of no term matches nothing
SearchResults(terms) ==
    IF terms = <<>> THEN {<<>>}
    ELSE {r \in UNION {[1..k -> IndexIds] : k \in 0..MaxCands} :
            \A i, j \in 1..Len(r) : i # j => r[i] # r[j]}

\* where main goes on when search_phrase timed out: it retries the search
on_timeout_retry == "search"

\* lines 200-202: on TimeoutError main continues with the next line
on_timeout == "loop"

\* max(match_scores) >= min_matched_lines with the comparison dropped
enough_matches_always(match_scores, min_lines) == TRUE

\* max(match_scores) >= min_matched_lines off by one
enough_matches_off_by_one(match_scores, min_lines) ==
    SetMax({match_scores[i] : i \in 1..Len(match_scores)}) >= min_lines - 1

\* line 217
enough_matches(match_scores, min_lines) ==
    SetMax({match_scores[i] : i \in 1..Len(match_scores)}) >= min_lines

\* the last index holding the maximum
argmax_last(match_scores) ==
    CHOOSE i \in 1..Len(match_scores) : \A j \in 1..Len(match_scores) :
        \/ match_scores[i] > match_scores[j]
        \/ match_scores[i] = match_scores[j] /\ i >= j

\* np.argmax: the first index holding the maximum
argmax(match_scores) ==
    CHOOSE i \in 1..Len(match_scores) : \A j \in 1..Len(match_scores) :
        \/ match_scores[i] > match_scores[j]
        \/ match_scores[i] = match_scores[j] /\ i <= j

\* line 211
match_scores == [i \in 1..Len(matches) |-> Len(matches[i])]

\* the window of lines the loop visits: all_lines[idx:idx+10]
WindowSize == 10

Window == PySlice(all_lines, idx, idx + WindowSize)

\* --min-matched-lines: default 3
DefaultMinMatchedLines == 3

LoopPcs == {"loop", "search", "load", "verify", "emit_path", "emit_spans", "emit_nl"}

\* match_candidate on every text of the OCR store and every document of the
\* bib store; the run keeps the table in candidate_alignments
CandidateAlignments ==
    [o \in {load_ocr(p) : p \in DOMAIN OcrStore},
     r \in {BibStore[x] : x \in DOMAIN BibStore},
     exc \in BOOLEAN |-> match_candidate(o, r, exc)]

MainInit ==
    /\ BudgetIdle
    /\ VerifyIdle
    /\ QueryIdle
    /\ candidate_alignments = CandidateAlignments
    /\ all_lines \in UNION {[1..k -> InputLines] : k \in 0..MaxLines}
    /\ idx \in 0..MaxIdx
    /\ min_matched_lines \in 0..DefaultMinMatchedLines
    /\ pc = "loop" /\ cursor = 0 /\ file_path = "" /\ m_ocr = <<>>
    /\ parsed_alignments = <<>> /\ results = <<>> /\ records = <<>>
    /\ matches = <<>> /\ nb_cards_searched = 0
    /\ matching_output = <<>> /\ alignment_output = <<>>
    /\ file_alignment = <<>> /\ file_matching = <<>>
    /\ intr_count = 0 /\ searched = 0 /\ skipped = "" /\ crash_cause = ""
    /\ endings = <<>>

\* the locals of one pass of the loop, dead once the pass is over
ForgetLocals ==
    /\ file_path' = "" /\ m_ocr' = <<>> /\ parsed_alignments' = <<>>
    /\ results' = <<>> /\ records' = <<>> /\ matches' = <<>> /\ endings' = <<>>

KeepLocals ==
    UNCHANGED <<file_path, m_ocr, parsed_alignments, results, records, matches,
                endings>>

KeepInputs ==
    UNCHANGED <<all_lines, idx, min_matched_lines, candidate_alignments, bvars, vvars,
                qvars>>

KeepOutputs ==
    UNCHANGED <<matching_output, alignment_output, file_alignment, file_matching>>

\* an exception other than KeyboardInterrupt leaves main through the with
\* block: nothing after the loop runs
Crash(cause) ==
    /\ pc' = "crashed"
    /\ crash_cause' = cause

\* lines 185-194: the next line of the window is split, its OCR text loaded
\* and its alignments parsed
NextCard ==
    /\ pc = "loop"
    /\ cursor < Len(Window)
    /\ cursor' = cursor + 1
    /\ searched' = 0
    /\ skipped' = ""
    /\ LET line == Window[cursor + 1]
       IN  IF load_ocr_raises(line.file_path)
           THEN /\ Crash("ocr_missing")
                /\ file_path' = line.file_path
                /\ UNCHANGED <<m_ocr, parsed_alignments, nb_cards_searched>>
           ELSE IF parse_alignments_raises(line.alignments)
           THEN /\ Crash("malformed")
                /\ file_path' = line.file_path
                /\ m_ocr' = load_ocr(line.file_path)
                /\ UNCHANGED <<parsed_alignments, nb_cards_searched>>
           ELSE /\ file_path' = line.file_path
                /\ m_ocr' = load_ocr(line.file_path)
                /\ parsed_alignments' = parse_alignments(line.alignments, m_ocr')
                /\ nb_cards_searched' = nb_cards_searched + 1
                /\ pc' = "search"
                /\ UNCHANGED crash_cause
    /\ UNCHANGED <<results, records, matches, intr_count, endings>>
    /\ KeepInputs /\ KeepOutputs

\* the window is exhausted: the for loop ends
LoopEnd ==
    /\ pc = "loop"
    /\ cursor = Len(Window)
    /\ pc' = "after"
    /\ UNCHANGED <<cursor, nb_cards_searched, intr_count, searched, skipped,
                   crash_cause>>
    /\ KeepLocals /\ KeepInputs /\ KeepOutputs

\* lines 198-199: search_phrase returns the hits
SearchHits ==
    /\ pc = "search"
    /\ results' \in SearchResults(fuzzy_terms(parsed_alignments))
    /\ searched' = searched + 1
    /\ pc' = "load"
    /\ UNCHANGED <<cursor, file_path, m_ocr, parsed_alignments, records, matches,
                   nb_cards_searched, intr_count, skipped, crash_cause, endings>>
    /\ KeepInputs /\ KeepOutputs

\* lines 198-202: search_phrase exceeds its 60 seconds and raises
\* TimeoutError
SearchTimeout ==
    /\ pc = "search"
    /\ searched' = searched + 1
    /\ skipped' = "timeout"
    /\ pc' = on_timeout
    /\ IF on_timeout = "loop" THEN ForgetLocals ELSE KeepLocals
    /\ UNCHANGED <<cursor, nb_cards_searched, intr_count, crash_cause>>
    /\ KeepInputs /\ KeepOutputs

\* lines 207-209: the documents of all hits are read from the bib LMDB;
\* txn_bib.get returns None for a missing one and None.decode() raises
LoadRecords ==
    /\ pc = "load"
    /\ IF \E i \in 1..Len(results) : results[i] \notin DOMAIN BibStore
       THEN /\ Crash("record_missing")
            /\ UNCHANGED records
       ELSE /\ records' = [i \in 1..Len(results) |-> BibStore[results[i]]]
            /\ pc' = "verify"
            /\ UNCHANGED crash_cause
    /\ UNCHANGED <<cursor, file_path, m_ocr, parsed_alignments, results, matches,
                   nb_cards_searched, intr_count, searched, skipped, endings>>
    /\ KeepInputs /\ KeepOutputs

\* what may end the call of correct_overlaps in match_candidate: a return,
\* an exception of its own, or a KeyboardInterrupt delivered while it runs;
\* the bare except of line 117 catches the latter two alike
ResolverEndings ==
    {"return", "error"}
        \cup (IF intr_count < MaxInterrupts THEN {"KeyboardInterrupt"} ELSE {})

\* line 210: match_candidate on the next record
VerifyCandidate ==
    /\ pc = "verify"
    /\ Len(matches) < Len(records)
    /\ \E ending \in ResolverEndings :
         /\ \E al \in candidate_alignments[m_ocr, records[Len(matches) + 1],
                                            ending # "return"] :
                matches' = Append(matches, al)
         /\ endings' = Append(endings, ending)
         /\ intr_count' = intr_count + (IF ending = "KeyboardInterrupt" THEN 1 ELSE 0)
    /\ UNCHANGED <<pc, cursor, file_path, m_ocr, parsed_alignments, results, records,
                   nb_cards_searched, searched, skipped, crash_cause>>
    /\ KeepInputs /\ KeepOutputs

\* lines 211-220 and 226-227: the scores, the threshold, the matching line
Select ==
    /\ pc = "verify"
    /\ Len(matches) = Len(records)
    /\ IF Len(matches) = 0
       THEN /\ pc' = "loop"
            /\ skipped' = "no candidates"
            /\ ForgetLocals
            /\ UNCHANGED matching_output
       ELSE IF enough_matches(match_scores, min_matched_lines)
       THEN /\ matching_output' =
                  Append(matching_output,
                         [file_path |-> file_path,
                          record_id |-> results[argmax(match_scores)],
                          score     |-> SetMax({match_scores[i] : i \in 1..Len(matches)})])
            /\ pc' = "emit_path"
            /\ KeepLocals
            /\ UNCHANGED skipped
       ELSE /\ pc' = "loop"
            /\ skipped' = "not enough matches"
            /\ ForgetLocals
            /\ UNCHANGED matching_output
    /\ UNCHANGED <<cursor, nb_cards_searched, alignment_output, file_alignment,
                   file_matching, intr_count, searched, crash_cause>>
    /\ KeepInputs

\* line 222: the alignment line starts with the card path
EmitPath ==
    /\ pc = "emit_path"
    /\ alignment_output' =
          Append(alignment_output, [file_path |-> file_path, spans |-> <<>>, nl |-> FALSE])
    /\ pc' = "emit_spans"
    /\ UNCHANGED <<cursor, nb_cards_searched, matching_output, file_alignment,
                   file_matching, intr_count, searched, skipped, crash_cause>>
    /\ KeepLocals /\ KeepInputs

\* lines 223-224: one "label from to" group per span of the best match
EmitSpans ==
    /\ pc = "emit_spans"
    /\ LET best == matches[argmax(match_scores)]
           n    == Len(alignment_output)
       IN  alignment_output' =
              [alignment_output EXCEPT ![n].spans =
                  [i \in 1..Len(best) |->
                      [label |-> best[i].label, from |-> best[i].from, to |-> best[i].to]]]
    /\ pc' = "emit_nl"
    /\ UNCHANGED <<cursor, nb_cards_searched, matching_output, file_alignment,
                   file_matching, intr_count, searched, skipped, crash_cause>>
    /\ KeepLocals /\ KeepInputs

\* line 225: the newline that ends the alignment line
EmitNewline ==
    /\ pc = "emit_nl"
    /\ alignment_output' = [alignment_output EXCEPT ![Len(alignment_output)].nl = TRUE]
    /\ pc' = "loop"
    /\ ForgetLocals
    /\ UNCHANGED <<cursor, nb_cards_searched, matching_output, file_alignment,
                   file_matching, intr_count, searched, skipped, crash_cause>>
    /\ KeepInputs

\* lines 229-230: a KeyboardInterrupt delivered anywhere in the loop but in
\* the try block of match_candidate ends the loop
Interrupt ==
    /\ pc \in LoopPcs
    /\ intr_count < MaxInterrupts
    /\ intr_count' = intr_count + 1
    /\ pc' = "after"
    /\ ForgetLocals
    /\ UNCHANGED <<cursor, nb_cards_searched, searched, skipped, crash_cause>>
    /\ KeepInputs /\ KeepOutputs

\* lines 232-236: the statistics line divides by the number of cards
AfterLoop ==
    /\ pc = "after"
    /\ IF nb_cards_searched = 0
       THEN Crash("ZeroDivisionError")
       ELSE /\ pc' = "save"
            /\ UNCHANGED crash_cause
    /\ UNCHANGED <<cursor, nb_cards_searched, intr_count, searched, skipped>>
    /\ KeepLocals /\ KeepInputs /\ KeepOutputs

\* save_results, lines 141-142: alignment.txt
SaveAlignment ==
    /\ pc = "save"
    /\ file_alignment' = <<alignment_output>>
    /\ pc' = "save_matching"
    /\ UNCHANGED <<cursor, nb_cards_searched, matching_output, alignment_output,
                   file_matching, intr_count, searched, skipped, crash_cause>>
    /\ KeepLocals /\ KeepInputs

\* save_results, lines 144-145: matching.txt
SaveMatching ==
    /\ pc = "save_matching"
    /\ file_matching' = <<matching_output>>
    /\ pc' = "done"
    /\ UNCHANGED <<cursor, nb_cards_searched, matching_output, alignment_output,
                   file_alignment, intr_count, searched, skipped, crash_cause>>
    /\ KeepLocals /\ KeepInputs

Next ==
    \/ NextCard
    \/ LoopEnd
    \/ SearchHits
    \/ SearchTimeout
    \/ LoadRecords
    \/ VerifyCandidate
    \/ Select
    \/ EmitPath
    \/ EmitSpans
    \/ EmitNewline
    \/ Interrupt
    \/ AfterLoop
    \/ SaveAlignment
    \/ SaveMatching

Spec == MainInit /\ [][Next]_vars

\* --------------------------------------------------------------- SpecQuery

MaxQueryLen == 5

QueryAlphabet == {"a", "b", " "}

\* texts with two long tokens, with a tab and a newline between tokens, and
\* with nothing but a short token
FixedTexts ==
    { <<"a", "a", "a", "a">>,
      <<"a", "b", "a">>,
      <<"a", "b", "a", "b", "\t", "b", "b", "\n", "b", "a", "b", "a", "b">>,
      <<"a", "b", "a", "b", " ", "a", "b", "a", "b">> }

QueryTexts == UNION {[1..k -> QueryAlphabet] : k \in 0..MaxQueryLen} \cup FixedTexts

QueryLabels == {"Author", "Title"}

\* the dicts parse_alignments may hand to search_phrase: no label, one label
\* with one or two texts, two labels with one text each
QueryAlignments ==
    {<<>>}
      \cup {<<[label |-> l, texts |-> <<t>>]>> : l \in QueryLabels, t \in QueryTexts}
      \cup {<<[label |-> l, texts |-> <<t, u>>]>> :
                l \in QueryLabels, t \in QueryTexts, u \in FixedTexts}
      \cup {<<[label |-> l, texts |-> <<u, t>>]>> :
                l \in QueryLabels, t \in QueryTexts, u \in FixedTexts}
      \cup {d \in {<<[label |-> l, texts |-> <<t>>], [label |-> m, texts |-> <<u>>]>> :
                      l \in QueryLabels, m \in QueryLabels,
                      t \in QueryTexts, u \in FixedTexts} :
                d[1].label # d[2].label}

QueryInit ==
    /\ BudgetIdle
    /\ VerifyIdle
    /\ MainIdle
    /\ sp_alignments \in QueryAlignments
    /\ query = <<>>
    /\ qpc = "call"

\* search_phrase, lines 50-76: the terms and the Or over them
BuildQuery ==
    /\ qpc = "call"
    /\ query' = [op |-> "Or", subqueries |-> fuzzy_terms(sp_alignments)]
    /\ qpc' = "built"
    /\ UNCHANGED <<sp_alignments, bvars, vvars, mvars>>

QueryNext == BuildQuery

SpecQuery == QueryInit /\ [][QueryNext]_vars

\* ------------------------------------------------------------ claims C1-C4

\* some window of h lies within d edits of p
HasOccurrence(p, h, d) ==
    \E s \in 0..Len(h) : \E e \in s..Len(h) : Lev(p, Slice(h, s, e)) <= d

\* C1: the occurrence the matcher step of match_candidate keeps for a field
\* text p is a window of the OCR text within get_max_dist(p) edits of p, and
\* it is the span appended for the field; a field with no window within
\* get_max_dist(p) edits contributes no span (the spans collected are exactly
\* one per field whose occurrence was kept).
C1_KeptWithinBudget ==
    (vpc = "fields" /\ vi >= 1) =>
        LET p == CurrentPair.text
            d == get_max_dist(p)
        IN  /\ outcomes[vi] = "kept" =>
                /\ lowest # <<>>
                /\ lowest[1].dist <= d
                /\ lowest[1].start <= lowest[1].end
                /\ lowest[1].end <= Len(ocr)
                /\ lowest[1].matched = Slice(ocr, lowest[1].start, lowest[1].end)
                /\ Lev(p, lowest[1].matched) <= d
                /\ fields # <<>>
                /\ fields[Len(fields)] =
                       [label |-> CurrentPair.label, text |-> lowest[1].matched,
                        from |-> lowest[1].start, to |-> lowest[1].end]
            /\ ~ HasOccurrence(p, ocr, d) => outcomes[vi] # "kept"
            /\ Len(fields) = Cardinality({k \in 1..vi : outcomes[k] = "kept"})

\* C1 witness: a field of budget 2 was kept at distance 2, after a field for
\* which no window lay within its budget and which added no span
C1_Witness ==
    /\ vpc = "fields" /\ vi = 2
    /\ outcomes = <<"None", "kept">>
    /\ Len(fields) = 1
    /\ get_max_dist(CurrentPair.text) = 2
    /\ lowest[1].dist = 2

\* C2: get_max_dist(text) is 1 when len(text) < 6, 2 when 6 <= len(text) < 11,
\* and min(floor(len(text) * 0.25), 6) otherwise.
C2_BudgetSchedule ==
    bpc = "done" =>
        LET n == Len(textA)
        IN  /\ n < 6 => distA = 1
            /\ (6 <= n /\ n < 11) => distA = 2
            /\ n >= 11 =>
                 /\ \/ distA = 6 /\ 4 * 6 <= n
                    \/ distA < 6 /\ 4 * distA <= n /\ n < 4 * (distA + 1)

\* C2 witness: the three branches, the last one below and at the cap
C2_Witness ==
    /\ bpc = "done"
    /\ Len(textA) = 23 /\ distA = 5
    /\ Len(textB) = 6 /\ distB = 2

\* C3: the budget is monotonic non-decreasing in the text length and never
\* exceeds 6.
C3_BudgetMonotonic ==
    bpc = "done" =>
        /\ Len(textA) <= Len(textB) => distA <= distB
        /\ distA <= 6
        /\ distB <= 6

\* C3 witness: the step from the second to the third branch (10 and 11 code
\* points share the budget 2) and a text long enough to be capped
C3_Witness ==
    /\ bpc = "done"
    /\ Len(textA) = 11 /\ distA = 2
    /\ Len(textB) = 28 /\ distB = 6

PairwiseDisjoint(fs) ==
    \A i, j \in 1..Len(fs) : i # j => ~ Overlap(fs[i], fs[j])

SortedByFrom(fs) ==
    \A i, j \in 1..Len(fs) : i < j => fs[i].from <= fs[j].from

SeqRange(fs) == {fs[i] : i \in 1..Len(fs)}

\* C4: the alignment match_candidate returns has pairwise disjoint [from, to)
\* ranges sorted by start; when the collected spans were already disjoint the
\* resolver returns the same spans; fully identical spans collapse to one.
C4_ResolvedDisjointSorted ==
    vpc = "returned" =>
        /\ PairwiseDisjoint(alignment)
        /\ SortedByFrom(alignment)
        /\ \A i, j \in 1..Len(alignment) : i # j => alignment[i] # alignment[j]
        /\ (~ raised /\ PairwiseDisjoint(raw_fields)) =>
               SeqRange(alignment) = SeqRange(raw_fields)
        /\ (~ raised /\ Len(raw_fields) >= 2
              /\ \A i \in 1..Len(raw_fields) : raw_fields[i] = raw_fields[1]) =>
               alignment = <<raw_fields[1]>>

\* C4 witness: two collected spans overlapped and both survive, disjoint, the
\* later one out of list order before resolution
C4_Witness ==
    /\ vpc = "returned" /\ ~ raised
    /\ Len(raw_fields) = 2
    /\ Overlap(raw_fields[1], raw_fields[2])
    /\ raw_fields[2].from < raw_fields[1].from
    /\ Len(alignment) = 2

\* ----------------------------------------------------------- claims C5-C10

\* the matching line written last
LastMatching == matching_output[Len(matching_output)]

\* C5: when the best score of a card is below min_matched_lines, the step
\* that decides the card appends nothing to the matching output or to the
\* alignment output and takes main back to the head of the loop, the next
\* line of the window being the next one taken.
C5_BelowThresholdNoResult ==
    [][(/\ pc = "verify"
        /\ Len(matches) = Len(records)
        /\ Len(matches) > 0
        /\ \A i \in 1..Len(matches) : Len(matches[i]) < min_matched_lines)
       => /\ matching_output' = matching_output
          /\ alignment_output' = alignment_output
          /\ intr_count' = intr_count => (pc' = "loop" /\ cursor' = cursor)]_vars

\* C5 witness: with the default threshold 3 the first card was matched and
\* the second, whose candidates scored less, was passed over
C5_Witness ==
    /\ pc = "loop" /\ skipped = "not enough matches"
    /\ min_matched_lines = 3
    /\ cursor = 2
    /\ Len(matching_output) = 1 /\ Len(alignment_output) = 1

\* C6: when a matching line is written, every hit of the search was verified,
\* and the record written is a hit whose score is at least the score of every
\* hit and strictly above the score of every hit ranked before it.
C6_SelectsFirstMaximum ==
    pc = "emit_path" =>
        /\ Len(matches) = Len(results)
        /\ \A i \in 1..Len(results) :
              matches[i] \in candidate_alignments[m_ocr, BibStore[results[i]], FALSE]
                                \cup candidate_alignments[m_ocr, BibStore[results[i]], TRUE]
        /\ LastMatching.file_path = file_path
        /\ \E k \in 1..Len(results) :
              /\ LastMatching.record_id = results[k]
              /\ LastMatching.score = Len(matches[k])
              /\ \A j \in 1..Len(results) : Len(matches[j]) <= Len(matches[k])
              /\ \A j \in 1..(k - 1) : Len(matches[j]) < Len(matches[k])

\* C6 witness: two hits tie at a positive score and the first is written
C6_Witness ==
    /\ pc = "emit_path"
    /\ Len(results) = 2
    /\ Len(matches[1]) = Len(matches[2])
    /\ Len(matches[1]) > 0
    /\ LastMatching.record_id = results[1]

\* the score of the record the last matching line names
SelectedScore ==
    Len(matches[CHOOSE k \in 1..Len(results) : results[k] = LastMatching.record_id])

\* C7 as claimed: a record of score 0 is never written as a card's match,
\* whatever min_matched_lines is.
C7_ZeroScoreNeverSelected ==
    pc = "emit_path" => (SelectedScore > 0 /\ LastMatching.score > 0)

\* C7 as amended: with min_matched_lines >= 1 a record of score 0 is never
\* written as a card's match, whatever its rank.
C7_ZeroScoreNeverSelectedPositiveThreshold ==
    (pc = "emit_path" /\ min_matched_lines >= 1) =>
        (SelectedScore > 0 /\ LastMatching.score > 0)

\* C7 witness: the hit ranked first scored 0 and the second hit is written
C7_Witness ==
    /\ pc = "emit_path" /\ min_matched_lines >= 1
    /\ Len(results) = 2
    /\ Len(matches[1]) = 0
    /\ LastMatching.record_id = results[2]

\* C8: a search that times out is the only search made for its card, leaves
\* both outputs and both files as they were, and takes main to the head of
\* the loop with the next line of the window the next one taken.
C8_TimeoutSkipsCard ==
    /\ [](searched <= 1)
    /\ [][(pc = "search" /\ skipped' = "timeout")
          => /\ pc' = "loop"
             /\ cursor' = cursor
             /\ searched' = 1
             /\ matching_output' = matching_output
             /\ alignment_output' = alignment_output
             /\ file_alignment' = file_alignment
             /\ file_matching' = file_matching
             /\ crash_cause' = crash_cause]_vars

\* C8 witness: the first card was matched, the search of the second timed
\* out, and the lines of the first are still there
C8_Witness ==
    /\ pc = "loop" /\ skipped = "timeout"
    /\ cursor = 2
    /\ Len(matching_output) = 1
    /\ Len(alignment_output) = 1 /\ alignment_output[1].nl

\* C9 as claimed: once an interrupt was delivered in the card loop, main is
\* past the loop, does not end in an exception, and when it is done both
\* files hold the outputs accumulated.
C9_InterruptStopsAndSaves ==
    intr_count > 0 =>
        /\ pc \in {"after", "save", "save_matching", "done"}
        /\ pc = "done" => (/\ file_alignment = <<alignment_output>>
                           /\ file_matching = <<matching_output>>)

\* C10 as claimed: no malformed line, missing OCR text or missing record
\* document ends the run.
C10_BadInputOnlySkipsCard ==
    crash_cause \notin {"malformed", "ocr_missing", "record_missing"}

\* ---------------------------------------------------------- claims C11-C18

\* C11 as claimed: once both files are written, alignment.txt and
\* matching.txt hold the same number of lines, every alignment line is
\* complete, and line i of both starts with the same card path.
C11_SavedOutputsAligned ==
    pc = "done" =>
        LET a == file_alignment[1]
            m == file_matching[1]
        IN  /\ Len(a) = Len(m)
            /\ \A i \in 1..Len(a) : a[i].nl
            /\ \A i \in 1..Min2(Len(a), Len(m)) : a[i].file_path = m[i].file_path

\* the tokens of a text: the maximal runs of characters that are not
\* whitespace, as ranges [s, e)
TokenRanges(text) ==
    {w \in (0..Len(text)) \X (0..Len(text)) :
        /\ w[1] < w[2]
        /\ \A i \in (w[1] + 1)..w[2] : text[i] \notin Whitespace
        /\ (w[1] = 0 \/ text[w[1]] \in Whitespace)
        /\ (w[2] = Len(text) \/ text[w[2] + 1] \in Whitespace)}

\* the index fields a label is searched in
FieldsOfLabel(label) ==
    IF label = "Author" THEN {"author1", "author2"}
    ELSE IF label = "Title" THEN {"title"} ELSE {}

\* the tokens of length > 3 of all label/text pairs whose label is searched
\* in field f and whose characters are word w
LongTokens(f, word) ==
    {x \in UNION {UNION {{<<k, j, w>> : w \in TokenRanges(sp_alignments[k].texts[j])} :
                            j \in 1..Len(sp_alignments[k].texts)} :
                     k \in 1..Len(sp_alignments)} :
        /\ f \in FieldsOfLabel(sp_alignments[x[1]].label)
        /\ x[3][2] - x[3][1] > 3
        /\ Slice(sp_alignments[x[1]].texts[x[2]], x[3][1], x[3][2]) = word}

\* the words the query or the texts hold
QueryWords ==
    {query.subqueries[i].text : i \in 1..Len(query.subqueries)}
      \cup UNION {UNION {{Slice(sp_alignments[k].texts[j], w[1], w[2]) :
                            w \in TokenRanges(sp_alignments[k].texts[j])} :
                            j \in 1..Len(sp_alignments[k].texts)} :
                     k \in 1..Len(sp_alignments)}

\* C12: the query search_phrase builds is one Or; each of its terms has
\* maxdist 2 and prefixlength 0 and is on author1, author2 or title; and for
\* every field and word the Or holds as many terms on that field with that
\* word as the label/text pairs searched in that field hold tokens of
\* length > 3 spelling that word (Author texts count for author1 and for
\* author2, Title texts for title, tokens of length <= 3 for nothing).
C12_QueryTerms ==
    qpc = "built" =>
        /\ query.op = "Or"
        /\ \A i \in 1..Len(query.subqueries) :
              /\ query.subqueries[i].maxdist = 2
              /\ query.subqueries[i].prefixlength = 0
              /\ query.subqueries[i].fieldname \in {"author1", "author2", "title"}
        /\ \A f \in {"author1", "author2", "title"} : \A word \in QueryWords :
              Cardinality({i \in 1..Len(query.subqueries) :
                              /\ query.subqueries[i].fieldname = f
                              /\ query.subqueries[i].text = word})
                = Cardinality(LongTokens(f, word))

\* C12 witness: an Author text of a long token, a short one and the same
\* long token again, and a Title text of one long token: five terms
C12_Witness ==
    /\ qpc = "built"
    /\ Len(sp_alignments) = 2
    /\ sp_alignments[1].label = "Author"
    /\ sp_alignments[1].texts = << <<"a", "b", "a", "b", "\t", "b", "b", "\n", "b", "a", "b", "a", "b">> >>
    /\ sp_alignments[2].label = "Title"
    /\ sp_alignments[2].texts = << <<"a", "a", "a", "a">> >>
    /\ Len(query.subqueries) = 5

\* C13: a candidate whose call of correct_overlaps ended in an exception has
\* the empty alignment and so the score 0; while a card has such a candidate
\* the run has not ended in an exception; the candidates after it are
\* verified next (unless an interrupt ends the loop); and the card is
\* decided only when every hit has its alignment.
C13_ResolverFailureScoresZero ==
    /\ [](/\ Len(endings) = Len(matches)
          /\ \A i \in 1..Len(endings) :
                endings[i] # "return" => (matches[i] = <<>> /\ match_scores[i] = 0)
          /\ (\E i \in 1..Len(endings) : endings[i] # "return")
                => (pc \in {"verify", "emit_path", "emit_spans", "emit_nl"}
                      /\ crash_cause = ""))
    /\ [][(/\ pc = "verify"
           /\ \E i \in 1..Len(endings) : endings[i] # "return"
           /\ intr_count' = intr_count)
          => IF Len(matches) < Len(records)
             THEN /\ pc' = "verify"
                  /\ Len(matches') = Len(matches) + 1
                  /\ SubSeq(matches', 1, Len(matches)) = matches
             ELSE pc' \in {"emit_path", "loop"}]_vars

\* C13 witness: the resolver failed on the first hit, the second hit was
\* verified all the same and is written as the match
C13_Witness ==
    /\ pc = "emit_path"
    /\ Len(results) = 2
    /\ endings = <<"error", "return">>
    /\ matches[1] = <<>>
    /\ Len(matches[2]) > 0
    /\ LastMatching.record_id = results[2]

\* C14: every span of the alignment match_candidate returns lies within the
\* OCR text, its text is character by character the OCR text at [from, to),
\* and the length of its text is to - from.
C14_SpanTextIsSliceOfOcr ==
    vpc = "returned" =>
        \A i \in 1..Len(alignment) :
            LET sp == alignment[i]
            IN  /\ 0 <= sp.from /\ sp.from <= sp.to /\ sp.to <= Len(ocr)
                /\ Len(sp.text) = sp.to - sp.from
                /\ \A k \in 1..Len(sp.text) : sp.text[k] = ocr[sp.from + k]

\* C14 witness: a span came out of resolution with a range narrower than the
\* one it was matched at, so the text it had been matched with is not its
\* text any more
C14_Witness ==
    /\ vpc = "returned" /\ ~ raised
    /\ \E i \in 1..Len(alignment) : \E j \in 1..Len(raw_fields) :
          /\ alignment[i].label = raw_fields[j].label
          /\ alignment[i].from >= raw_fields[j].from
          /\ alignment[i].to <= raw_fields[j].to
          /\ alignment[i].to - alignment[i].from < raw_fields[j].to - raw_fields[j].from
          /\ alignment[i].from < alignment[i].to
          /\ alignment[i].text # raw_fields[j].text

\* the field texts of the pairs whose occurrence was kept, in the order of
\* the collected spans
RECURSIVE KeptTexts(_)
KeptTexts(n) ==
    IF n = 0 THEN <<>>
    ELSE KeptTexts(n - 1)
            \o (IF outcomes[n] = "kept" THEN <<AtomicPairs(db_entries)[n].text>> ELSE <<>>)

\* the edit distance at which collected span i was matched (lowest.dist)
MatchedDist(i) == Lev(KeptTexts(Len(outcomes))[i], raw_fields[i].text)

\* collected span i is to be kept when it overlaps span j
WinsOver(i, j) ==
    LET a == raw_fields[i]
        b == raw_fields[j]
    IN  \/ MatchedDist(i) < MatchedDist(j)
        \/ /\ MatchedDist(i) = MatchedDist(j)
           /\ \/ (a.to - a.from) > (b.to - b.from)
              \/ (a.to - a.from) = (b.to - b.from) /\ a.from < b.from

\* C15 as claimed: a collected span that overlaps other collected spans and
\* is, against each of them, the one of strictly lower edit distance, or of
\* equal distance and larger range, or of equal distance and range and
\* earlier start, is in the returned alignment with its range as collected.
C15_LowerDistanceKept ==
    (vpc = "returned" /\ ~ raised) =>
        \A i \in 1..Len(raw_fields) :
            (/\ \E j \in 1..Len(raw_fields) : j # i /\ Overlap(raw_fields[i], raw_fields[j])
             /\ \A j \in 1..Len(raw_fields) :
                   (j # i /\ Overlap(raw_fields[i], raw_fields[j])) => WinsOver(i, j))
            => \E k \in 1..Len(alignment) :
                  /\ alignment[k].label = raw_fields[i].label
                  /\ alignment[k].from = raw_fields[i].from
                  /\ alignment[k].to = raw_fields[i].to

\* every window of the OCR text within the budget of the field at hand
OccurrencesInBudget ==
    RawMatches(CurrentPair.text, ocr, get_max_dist(CurrentPair.text))

\* the field at hand had an occurrence kept
FieldKept == vi >= 1 /\ vpc = "fields" /\ outcomes[vi] = "kept"

RECURSIVE KeptLabels(_)
KeptLabels(n) ==
    IF n = 0 THEN <<>>
    ELSE KeptLabels(n - 1)
            \o (IF outcomes[n] = "kept" THEN <<AtomicPairs(db_entries)[n].label>> ELSE <<>>)

\* C18: match_candidate returns for every record; a pair whose text is empty
\* ends in the ValueError that is passed over and gives no span; every other
\* pair of the record is still matched, its occurrence kept exactly when the
\* OCR text has one within the budget; and the spans handed to
\* correct_overlaps are those of the pairs kept, in order.
C18_DegenerateFieldSkipped ==
    vpc = "returned" =>
        LET pairs == AtomicPairs(db_entries)
        IN  /\ Len(outcomes) = Len(pairs)
            /\ \A i \in 1..Len(pairs) :
                  IF pairs[i].text = <<>>
                  THEN outcomes[i] = "ValueError"
                  ELSE outcomes[i] = (IF RawMatches(pairs[i].text, ocr,
                                                    get_max_dist(pairs[i].text)) # {}
                                      THEN "kept" ELSE "None")
            /\ [i \in 1..Len(raw_fields) |-> raw_fields[i].label] = KeptLabels(Len(pairs))
            /\ (~ raised) => alignment = Reslice(ocr, correct_overlaps(raw_fields))

\* C18 witness: the first field of a record is empty, the second is found,
\* and its span is the alignment returned
C18_Witness ==
    /\ vpc = "returned" /\ ~ raised
    /\ Len(db_entries) = 2
    /\ db_entries[1].raw_text = <<>>
    /\ outcomes = <<"ValueError", "kept">>
    /\ Len(raw_fields) = 1
    /\ Len(alignment) = 1
    /\ alignment[1].from < alignment[1].to

====
